---- MODULE Spec2Model ----
(***************************************************************************)
(* Model of app.py: the Streamlit script of the urban design assistant.    *)
(*                                                                         *)
(* One server process holds the st.cache_resource cache of load_toolkit    *)
(* and the three artifact files.  Every session reruns the whole script on *)
(* each interaction: it calls load_toolkit (line 62), reads the sidebar    *)
(* (lines 67-95), stops when no model was loaded (lines 108-110), builds   *)
(* input_data (lines 114-132) and, when the button was pressed, runs       *)
(* scale -> predict -> inverse-scale, renders the three metrics and the    *)
(* design advice (lines 138-246).                                          *)
(*                                                                         *)
(* Numbers are fixed-point integers in hundredths: 0.3 is 30, 32.7 is      *)
(* 3270, 140 is 14000.  The fitted model is opaque: its prediction is an   *)
(* input of the pipeline step, drawn from a bounded set.                   *)
(***************************************************************************)
EXTENDS Integers, Sequences, FiniteSets, TLC

\* ------------------------------------------------------------ bounds
NumSessions == 2
MaxBodyRuns == 2

Sessions == 1..NumSessions

\* ------------------------------------------------------------ artifacts
\* joblib.load('best_model_mlp.pkl'), ('scaler_X.pkl'), ('scaler_y.pkl')
ArtifactFiles == <<"best_model_mlp.pkl", "scaler_X.pkl", "scaler_y.pkl">>

\* What joblib.load meets: the file, no file (FileNotFoundError), or a file
\* it cannot unpickle or read (any other exception).
FileStates == {"present", "absent", "corrupt"}

\* Python's None; a loaded object is named by the run of the body that made it.
None == 0
NoneTriple == <<None, None, None>>
Unset == <<>>

IsLoaded(t) == Len(t) = 3 /\ \A i \in 1..3 : t[i] # None
IsNone(t) == t = NoneTriple

\* ------------------------------------------------------------ sidebar
\* The variables the sliders are assigned to, in the order the script reads them.
SidebarVars ==
    <<"FAR", "BCR", "OSR", "AH", "SD", "OR", "SVF", "AS",
      "AAR", "xAAR", "yAAR", "BESA", "SF", "APR">>

\* The label each slider is shown under (its leading word), in the same order.
SidebarLabels ==
    <<"FAR", "BCR", "OSR", "AH", "SD", "OR", "SVF", "AS",
      "AAR", "xAAR", "yAAR", "BESA", "SF", "APR">>

\* The keys of input_data in insertion order: the columns of input_df.
FeatureOrder ==
    <<"FAR", "BCR", "OSR", "AS", "AH", "OR", "SD", "SVF",
      "AAR", "xAAR", "yAAR", "BESA", "SF", "APR">>

Names == {SidebarVars[i] : i \in 1..Len(SidebarVars)}

IndexOf(seq, x) == CHOOSE i \in 1..Len(seq) : seq[i] = x

\* The sliders' default values, in sidebar order.
DefaultWidgets ==
    <<250, 40, 30, 3000, 1000, 4500, 50, 150, 100, 100, 100, 100000, 50, 1000>>

\* A second setting of the sliders no rule reads, all values distinct.
OtherWidgets ==
    <<250, 40, 31, 3100, 1100, 9000, 50, 200, 110, 120, 130, 100100, 60, 1200>>

FARValues == {250, 400, 450}
BCRValues == {40, 60, 70}
SVFValues == {20, 30, 50, 70, 80}

MkWidgets(base, far, bcr, svf) ==
    [base EXCEPT ![1] = far, ![2] = bcr, ![7] = svf]

\* The slider settings of the request specification.
WidgetStates ==
    {MkWidgets(base, far, bcr, svf) :
        base \in {DefaultWidgets, OtherWidgets},
        far \in FARValues, bcr \in BCRValues, svf \in SVFValues}

\* The slider settings of the process specification.
FewWidgetStates == {MkWidgets(OtherWidgets, 450, 70, 20)}

\* Lines 73-92: each slider's value is bound to its variable.
ReadSidebar(w) == [n \in Names |-> w[IndexOf(SidebarVars, n)]]

\* Lines 114-129: the dict literal, as (key, value) pairs in insertion order.
InputDataBySidebarOrder(v) ==
    [i \in 1..Len(SidebarVars) |-> <<SidebarVars[i], v[SidebarVars[i]]>>]

InputData(v) ==
    [i \in 1..Len(FeatureOrder) |-> <<FeatureOrder[i], v[FeatureOrder[i]]>>]

\* input_data['SVF'] and the like.
Lookup(d, k) == d[CHOOSE i \in 1..Len(d) : d[i][1] = k][2]

\* Line 132: pd.DataFrame([input_data]) has one row; its columns and values
\* follow the dict's insertion order.
InputDfColumns(d) == [i \in 1..Len(d) |-> d[i][1]]
InputDfRow(d) == [i \in 1..Len(d) |-> d[i][2]]

\* ------------------------------------------------------------ prediction
\* pred_original[0]: the row the output scaler returns, (aveUTCI, stdUTCI,
\* ATEC) for the three-output artifacts, (UTCI, ATEC) for two-output ones.
UtciValues == {3000, 3001, 3270}
StdValues == {-50, 100, 200, 300}
AtecValues == {-100, 10000, 11400, 14000, 14001}

Outcomes ==
    {<<u, sd, a>> : u \in UtciValues, sd \in StdValues, a \in AtecValues}
        \cup {<<3270, 11400>>}

FewOutcomes == {<<3270, 300, 14001>>}

\* The step of the pipeline that raises, if one does.
Faults == {"none", "scale", "predict", "inverse"}
NoFaults == {"none"}

\* ------------------------------------------------------------ thresholds
UTCI_HOT == 3200
UTCI_COLD == 2000
ATEC_HIGH == 15000
UTCI_ADVICE == 3000
SVF_LOW == 30
SVF_HIGH == 70
ATEC_ADVICE == 14000
FAR_DENSE == 400
BCR_HIGH == 60
STD_UTCI_HIGH == 200

\* Lines 168-176: the delta shown under the aveUTCI metric.
UtciStatus(u) ==
    IF u > UTCI_HOT THEN "High Heat Stress"
    ELSE IF u < UTCI_COLD THEN "Cold Stress"
    ELSE "Comfortable"

\* Lines 200-205: the delta shown under the ATEC metric.
EnergyStatus(a) ==
    IF a > ATEC_HIGH THEN "High Consumption" ELSE "Energy Efficient"

\* st.progress(min(x, 1.0)) raises for a value below 0.0.
ProgressRaises(x) == x < 0

\* Lines 155-214: indexing the row, then the three metric columns.  The
\* tiles rendered before an exception stay on the page.
RenderMetrics(o) ==
    IF Len(o) < 3 THEN [tiles |-> <<>>, raised |-> TRUE]
    ELSE LET col1 == <<UtciStatus(o[1])>>
             col2 == <<"stdUTCI">>
             col3 == <<EnergyStatus(o[3])>>
         IN  IF ProgressRaises(o[2])
             THEN [tiles |-> col1 \o col2, raised |-> TRUE]
             ELSE IF ProgressRaises(o[3])
             THEN [tiles |-> col1 \o col2 \o col3, raised |-> TRUE]
             ELSE [tiles |-> col1 \o col2 \o col3, raised |-> FALSE]

\* Lines 223, 227: utci_val > 30
HighUtciInclusive(u) == u >= UTCI_ADVICE

HighUtci(u) == u > UTCI_ADVICE

\* Line 223
Rule1(o, d) == HighUtci(o[1]) /\ Lookup(d, "SVF") < SVF_LOW
\* Line 227
Rule2(o, d) == HighUtci(o[1]) /\ Lookup(d, "SVF") > SVF_HIGH
\* Line 231
Rule3(o, d) == o[3] > ATEC_ADVICE /\ Lookup(d, "FAR") > FAR_DENSE
\* Line 235
Rule4(o, d) == Lookup(d, "BCR") > BCR_HIGH /\ o[2] > STD_UTCI_HIGH

When(cond, msg) == IF cond THEN <<msg>> ELSE <<>>

\* A slip in rule 2: it reads the low-SVF bound, and the BCR rule is
\* appended before the FAR rule.
SuggestionsSlip(o, d) ==
    When(Rule1(o, d), "warning:low_svf")
        \o When(HighUtci(o[1]) /\ Lookup(d, "SVF") >= SVF_LOW - 10, "warning:high_svf")
        \o When(Rule4(o, d), "warning:bcr")
        \o When(Rule3(o, d), "warning:far")

\* Lines 220-236: the list the four rules append to, in order.
Suggestions(o, d) ==
    When(Rule1(o, d), "warning:low_svf")
        \o When(Rule2(o, d), "warning:high_svf")
        \o When(Rule3(o, d), "warning:far")
        \o When(Rule4(o, d), "warning:bcr")

\* A slip in the final branch: the info box is shown after the warnings too.
RenderAdviceSlip(sugg) == sugg \o <<"info:balanced">>

\* Lines 238-242: the info box for an empty list, else one warning each.
RenderAdvice(sugg) == IF sugg = <<>> THEN <<"info:balanced">> ELSE sugg

\* A call of a method on a loaded artifact; on None it raises AttributeError.
Raises(obj, fault, step) == obj = None \/ fault = step

\* An except clause that misses what the result handling raises.
TryPredictNarrow(tk, d, fault, o) ==
    LET err == <<"error:prediction", "warning:hint">> IN
    IF Raises(tk[2], fault, "scale")
    THEN [status |-> "error", steps |-> <<"scale">>, features |-> InputDfRow(d),
          outcome |-> <<>>, tiles |-> <<>>, messages |-> err]
    ELSE IF Raises(tk[1], fault, "predict")
    THEN [status |-> "error", steps |-> <<"scale", "predict">>,
          features |-> InputDfRow(d), outcome |-> <<>>, tiles |-> <<>>,
          messages |-> err]
    ELSE IF Raises(tk[3], fault, "inverse")
    THEN [status |-> "error", steps |-> <<"scale", "predict", "inverse">>,
          features |-> InputDfRow(d), outcome |-> <<>>, tiles |-> <<>>,
          messages |-> err]
    ELSE LET m == RenderMetrics(o) IN
         IF m.raised
         THEN [status |-> "exception", steps |-> <<"scale", "predict", "inverse">>,
               features |-> InputDfRow(d), outcome |-> o, tiles |-> m.tiles,
               messages |-> <<>>]
         ELSE [status |-> "result", steps |-> <<"scale", "predict", "inverse">>,
               features |-> InputDfRow(d), outcome |-> o, tiles |-> m.tiles,
               messages |-> RenderAdvice(Suggestions(o, d))]

\* Lines 142-246: the try block and its except clause.  steps are the calls
\* made on the artifacts, features the row handed to scaler_x.transform.
TryPredict(tk, d, fault, o) ==
    LET err == <<"error:prediction", "warning:hint">> IN
    IF Raises(tk[2], fault, "scale")
    THEN [status |-> "error", steps |-> <<"scale">>, features |-> InputDfRow(d),
          outcome |-> <<>>, tiles |-> <<>>, messages |-> err]
    ELSE IF Raises(tk[1], fault, "predict")
    THEN [status |-> "error", steps |-> <<"scale", "predict">>,
          features |-> InputDfRow(d), outcome |-> <<>>, tiles |-> <<>>,
          messages |-> err]
    ELSE IF Raises(tk[3], fault, "inverse")
    THEN [status |-> "error", steps |-> <<"scale", "predict", "inverse">>,
          features |-> InputDfRow(d), outcome |-> <<>>, tiles |-> <<>>,
          messages |-> err]
    ELSE LET m == RenderMetrics(o) IN
         IF m.raised
         THEN [status |-> "error", steps |-> <<"scale", "predict", "inverse">>,
               features |-> InputDfRow(d), outcome |-> o, tiles |-> m.tiles,
               messages |-> err]
         ELSE [status |-> "result", steps |-> <<"scale", "predict", "inverse">>,
               features |-> InputDfRow(d), outcome |-> o, tiles |-> m.tiles,
               messages |-> RenderAdvice(Suggestions(o, d))]

\* ------------------------------------------------------------ state
VARIABLES
    files,        \* the state of each artifact file on disk
    cache,        \* st.cache_resource's entry for load_toolkit(): <<>> or <<value>>
    lock,         \* the session computing the cache entry, 0 when none
    bodyRuns,     \* how often the body of load_toolkit was entered
    bodyReturns,  \* how often the body of load_toolkit returned a value
    pc,           \* where each session's script run stands
    locals,       \* the objects the body has loaded so far, per session
    toolkit,      \* (model, scaler_x, scaler_y) of the script run, per session
    run           \* what each session's current script run was given and showed

vars == <<files, cache, lock, bodyRuns, bodyReturns, pc, locals, toolkit, run>>

\* A script run that has shown nothing yet; prevFailed tells whether the
\* session's run before it ended in the except clause, missed whether its
\* call of load_toolkit found the cache empty.
FreshRun(btn, w, prevFailed) ==
    [predict_btn |-> btn, widgets |-> w, prevFailed |-> prevFailed,
     missed |-> FALSE, fault |-> "none",
     status |-> "running", steps |-> <<>>, columns |-> <<>>, features |-> <<>>,
     outcome |-> <<>>, tiles |-> <<>>, messages |-> <<>>]

Init ==
    /\ files \in [1..3 -> FileStates]
    /\ cache = <<>>
    /\ lock = 0
    /\ bodyRuns = 0
    /\ bodyReturns = 0
    /\ pc = [s \in Sessions |-> "idle"]
    /\ locals = [s \in Sessions |-> <<>>]
    /\ toolkit = [s \in Sessions |-> Unset]
    /\ run = [s \in Sessions |-> FreshRun(FALSE, DefaultWidgets, FALSE)]

\* The artifacts were loaded by an earlier script run: the state every
\* request is served from once the files were in place.
InitLoaded ==
    /\ files = [i \in 1..3 |-> "present"]
    /\ cache = <<(<<1, 1, 1>>)>>
    /\ lock = 0
    /\ bodyRuns = 1
    /\ bodyReturns = 1
    /\ pc = [s \in Sessions |-> "idle"]
    /\ locals = [s \in Sessions |-> <<>>]
    /\ toolkit = [s \in Sessions |-> Unset]
    /\ run = [s \in Sessions |-> FreshRun(FALSE, DefaultWidgets, FALSE)]

\* ------------------------------------------------------------ environment
\* A file is put in place, removed or damaged by the operator.
SetFile(i, st) ==
    /\ files[i] # st
    /\ files' = [files EXCEPT ![i] = st]
    /\ UNCHANGED <<cache, lock, bodyRuns, bodyReturns, pc, locals, toolkit, run>>

\* A widget interaction: Streamlit reruns the script from the top with the
\* sliders' values and the button's state.
StartRun(s, W) ==
    /\ pc[s] = "idle"
    /\ \E btn \in BOOLEAN, w \in W :
          run' = [run EXCEPT ![s] = FreshRun(btn, w, run[s].status = "error")]
    /\ toolkit' = [toolkit EXCEPT ![s] = Unset]
    /\ pc' = [pc EXCEPT ![s] = "call"]
    /\ UNCHANGED <<files, cache, lock, bodyRuns, bodyReturns, locals>>

\* ------------------------------------------------------------ load_toolkit
\* Line 62 through @st.cache_resource: a cached value is returned as it is.
CallLoad(s) ==
    /\ pc[s] = "call"
    /\ IF cache # <<>>
       THEN /\ toolkit' = [toolkit EXCEPT ![s] = cache[1]]
            /\ pc' = [pc EXCEPT ![s] = "script"]
            /\ UNCHANGED run
       ELSE /\ pc' = [pc EXCEPT ![s] = "miss"]
            /\ run' = [run EXCEPT ![s].missed = TRUE]
            /\ UNCHANGED toolkit
    /\ UNCHANGED <<files, cache, lock, bodyRuns, bodyReturns, locals>>

\* A cache miss that enters the body without looking at the cache again.
AcquireLockNoRecheck(s) ==
    /\ pc[s] = "miss"
    /\ lock = 0
    /\ bodyRuns < MaxBodyRuns
    /\ lock' = s
    /\ bodyRuns' = bodyRuns + 1
    /\ locals' = [locals EXCEPT ![s] = <<>>]
    /\ pc' = [pc EXCEPT ![s] = "load_model"]
    /\ UNCHANGED <<files, cache, bodyReturns, toolkit, run>>

\* On a miss the caller takes the entry's compute lock and looks again: a
\* value stored meanwhile is returned, else the body is entered.
AcquireLock(s) ==
    /\ pc[s] = "miss"
    /\ lock = 0
    /\ IF cache # <<>>
       THEN /\ toolkit' = [toolkit EXCEPT ![s] = cache[1]]
            /\ pc' = [pc EXCEPT ![s] = "script"]
            /\ UNCHANGED <<lock, bodyRuns, locals>>
       ELSE /\ bodyRuns < MaxBodyRuns
            /\ lock' = s
            /\ bodyRuns' = bodyRuns + 1
            /\ locals' = [locals EXCEPT ![s] = <<>>]
            /\ pc' = [pc EXCEPT ![s] = "load_model"]
            /\ UNCHANGED toolkit
    /\ UNCHANGED <<files, cache, bodyReturns, run>>

\* An except clause that returns what was loaded before the missing file.
PartialResult(loaded) ==
    [i \in 1..3 |-> IF i <= Len(loaded) THEN loaded[i] ELSE None]

\* Lines 59-60: return None, None, None
FailureResult(loaded) == NoneTriple

\* The body returns: the value is stored, the lock released, and line 62
\* unpacks it into model, scaler_x, scaler_y.
Return(s, value) ==
    /\ cache' = <<value>>
    /\ lock' = 0
    /\ bodyReturns' = bodyReturns + 1
    /\ toolkit' = [toolkit EXCEPT ![s] = value]
    /\ locals' = [locals EXCEPT ![s] = <<>>]
    /\ pc' = [pc EXCEPT ![s] = "script"]
    /\ UNCHANGED <<files, bodyRuns, run>>

\* Any other exception leaves load_toolkit and the script: nothing is
\* stored, the lock is released, the run ends with the traceback shown.
Raise(s) ==
    /\ lock' = 0
    /\ locals' = [locals EXCEPT ![s] = <<>>]
    /\ run' = [run EXCEPT ![s].status = "exception"]
    /\ pc' = [pc EXCEPT ![s] = "idle"]
    /\ UNCHANGED <<files, cache, bodyRuns, bodyReturns, toolkit>>

LoadPc == <<"load_model", "load_scaler_x", "load_scaler_y">>

\* One joblib.load of lines 55-57, and what follows from its outcome.
Load(s, i) ==
    /\ pc[s] = LoadPc[i]
    /\ lock = s
    /\ IF files[i] = "absent" THEN Return(s, FailureResult(locals[s]))
       ELSE IF files[i] = "corrupt" THEN Raise(s)
       ELSE IF i = 3 THEN Return(s, Append(locals[s], bodyRuns))
       ELSE /\ locals' = [locals EXCEPT ![s] = Append(locals[s], bodyRuns)]
            /\ pc' = [pc EXCEPT ![s] = LoadPc[i + 1]]
            /\ UNCHANGED <<files, cache, lock, bodyRuns, bodyReturns, toolkit, run>>

\* Line 55
LoadModel(s) == Load(s, 1)
\* Line 56
LoadScalerX(s) == Load(s, 2)
\* Line 57
LoadScalerY(s) == Load(s, 3)

\* ------------------------------------------------------------ the script
\* Line 108: model is None
ModelMissing(tk) == tk[1] = None

\* Lines 67-257: the sidebar is read, then the page is rendered.  faults are
\* the steps that may raise, outs the rows the artifacts may predict.
RunScript(s, faults, outs) ==
    /\ pc[s] = "script"
    /\ LET r == run[s]
           v == ReadSidebar(r.widgets)
           tk == toolkit[s]
       IN  IF ModelMissing(tk)
           THEN run' = [run EXCEPT ![s].status = "stopped",
                                   ![s].messages = <<"error:model_not_found">>]
           ELSE LET d == InputData(v) IN
                IF r.predict_btn
                THEN \E fault \in faults, o \in outs :
                        LET p == TryPredict(tk, d, fault, o) IN
                        run' = [run EXCEPT ![s].fault = fault,
                                      ![s].status = p.status,
                                      ![s].steps = p.steps,
                                      ![s].columns = InputDfColumns(d),
                                      ![s].features = p.features,
                                      ![s].outcome = p.outcome,
                                      ![s].tiles = p.tiles,
                                      ![s].messages = p.messages]
                ELSE run' = [run EXCEPT ![s].status = "info",
                                        ![s].columns = InputDfColumns(d),
                                        ![s].messages = <<"info:start">>]
    /\ pc' = [pc EXCEPT ![s] = "idle"]
    /\ UNCHANGED <<files, cache, lock, bodyRuns, bodyReturns, locals, toolkit>>

\* ------------------------------------------------------------ specifications
\* The server process: files, cache and every session's script runs.
Next ==
    \/ \E i \in 1..3, st \in FileStates : SetFile(i, st)
    \/ \E s \in Sessions : StartRun(s, FewWidgetStates)
    \/ \E s \in Sessions : CallLoad(s)
    \/ \E s \in Sessions : AcquireLock(s)
    \/ \E s \in Sessions : LoadModel(s)
    \/ \E s \in Sessions : LoadScalerX(s)
    \/ \E s \in Sessions : LoadScalerY(s)
    \/ \E s \in Sessions : RunScript(s, NoFaults, FewOutcomes)

Spec == Init /\ [][Next]_vars

\* One session's requests against the loaded artifacts, over every slider
\* setting and predicted row of the bounded sets.
NextRequests ==
    \/ StartRun(1, WidgetStates)
    \/ CallLoad(1)
    \/ RunScript(1, Faults, Outcomes)

SpecRequests == InitLoaded /\ [][NextRequests]_vars

\* ------------------------------------------------------------ properties
AllPresent == \A i \in 1..3 : files[i] = "present"

Count(seq, S) == Cardinality({i \in 1..Len(seq) : seq[i] \in S})

WarningKinds == {"warning:low_svf", "warning:high_svf", "warning:far", "warning:bcr"}

\* The rules that fire for a finished request, read off its inputs.
FiredRules(r) ==
    LET d == InputData(ReadSidebar(r.widgets))
        o == r.outcome
    IN  {k \in 1..4 : \/ k = 1 /\ Rule1(o, d)
                      \/ k = 2 /\ Rule2(o, d)
                      \/ k = 3 /\ Rule3(o, d)
                      \/ k = 4 /\ Rule4(o, d)}

\* C1: load_toolkit hands out either three loaded artifacts or three Nones,
\* never a mix, also when a file is absent; and a script run that got the
\* Nones calls no scale, predict or inverse-scale step and ends stopped,
\* with the button pressed or not.
C1_AllOrNothing ==
    /\ cache # <<>> => IsLoaded(cache[1]) \/ IsNone(cache[1])
    /\ \A s \in Sessions :
          /\ toolkit[s] # Unset => IsLoaded(toolkit[s]) \/ IsNone(toolkit[s])
          /\ toolkit[s] # Unset /\ IsNone(toolkit[s]) => run[s].steps = <<>>
          /\ pc[s] = "idle" /\ toolkit[s] # Unset /\ IsNone(toolkit[s])
                => run[s].status = "stopped"

\* The model file is there, scaler_X.pkl is not; the button was pressed and
\* the run stopped on the None triple.
C1_Witness ==
    \E s \in Sessions :
        /\ files[1] = "present" /\ files[2] = "absent"
        /\ pc[s] = "idle" /\ toolkit[s] = NoneTriple
        /\ run[s].missed /\ run[s].predict_btn /\ run[s].status = "stopped"

\* C2 as stated: the body of load_toolkit is entered at most once in the
\* process, and every caller it returns to holds the same triple.
C2_BodyEnteredAtMostOnce ==
    /\ bodyRuns <= 1
    /\ \A s, t \in Sessions :
          toolkit[s] # Unset /\ toolkit[t] # Unset => toolkit[s] = toolkit[t]

\* C2, amended: the body returns at most once in the process; it is entered
\* again only while no value is cached and no other run of it is under way,
\* that is after a run that raised; every caller load_toolkit returns to
\* holds the one cached triple.
C2_BodyReturnsAtMostOnce ==
    /\ [](/\ bodyReturns <= 1
          /\ \A s \in Sessions : toolkit[s] # Unset => cache = <<toolkit[s]>>
          /\ \A s, t \in Sessions :
                toolkit[s] # Unset /\ toolkit[t] # Unset => toolkit[s] = toolkit[t])
    /\ [][bodyRuns' > bodyRuns => bodyReturns = 0 /\ cache = <<>> /\ lock = 0]_vars

\* Two sessions both missed the cache, the body ran once, and both hold the
\* triple that run loaded.
C2_Witness ==
    \E s, t \in Sessions :
        /\ s # t
        /\ run[s].missed /\ run[t].missed
        /\ IsLoaded(toolkit[s]) /\ toolkit[t] = toolkit[s]
        /\ bodyRuns = 1 /\ bodyReturns = 1

\* C3: a failed load is not kept: a call of load_toolkit made while all
\* three files are in place never returns the None triple of an earlier
\* failure.
C3_FailureRetried ==
    [][\A s \in Sessions :
          pc[s] = "call" /\ pc'[s] = "script" /\ AllPresent
             => ~IsNone(toolkit'[s])]_vars

\* What a request must be given to come through: a three-entry row whose
\* stdUTCI and ATEC the progress bars accept.
WellFormed(o) == Len(o) = 3 /\ o[2] >= 0 /\ o[3] >= 0

\* C4: a request in which a pipeline step or the result handling raises
\* ends in the except clause with the error and the hint shown; the cached
\* and the session's triple stay the loaded ones; and a request whose steps
\* do not raise runs all three steps and shows a result, whatever the
\* request before it did.
C4_RequestScopedFailure ==
    /\ cache = <<(<<1, 1, 1>>)>>
    /\ \A s \in Sessions :
          LET r == run[s] IN
          /\ toolkit[s] \in {Unset, cache[1]}
          /\ pc[s] = "idle" /\ r.predict_btn /\ r.status # "running" =>
                /\ r.fault # "none" \/ ~WellFormed(r.outcome)
                      => /\ r.status = "error"
                         /\ r.messages = <<"error:prediction", "warning:hint">>
                /\ r.fault = "none" /\ WellFormed(r.outcome)
                      => /\ r.status = "result"
                         /\ r.steps = <<"scale", "predict", "inverse">>

\* A request came through right after one of the same session failed.
C4_Witness ==
    \E s \in Sessions :
        /\ pc[s] = "idle" /\ run[s].predict_btn /\ run[s].prevFailed
        /\ run[s].status = "result"
        /\ toolkit[s] = <<1, 1, 1>>

\* C5: a request that came through shows the one 'balanced' info box
\* exactly when no rule fired; when rules fired it shows one warning for
\* each and no 'balanced' box; it never shows nothing and never both.
C5_BalancedIffNoRule ==
    \A s \in Sessions :
        run[s].status = "result" =>
            LET msgs == run[s].messages
                n == Cardinality(FiredRules(run[s]))
            IN  /\ msgs # <<>>
                /\ n = 0 => msgs = <<"info:balanced">>
                /\ n > 0 => /\ Count(msgs, WarningKinds) = n
                            /\ Len(msgs) = n
                            /\ Count(msgs, {"info:balanced"}) = 0

\* Three rules fired and three warnings are shown.
C5_Witness ==
    \E s \in Sessions :
        /\ run[s].status = "result"
        /\ Cardinality(FiredRules(run[s])) = 3
        /\ Len(run[s].messages) = 3

\* C6: a request whose aveUTCI is above the advice threshold shows a
\* heat-stress warning for every SVF, and never the 'balanced' box.
C6_HeatAdvisoryForEverySVF ==
    \A s \in Sessions :
        run[s].status = "result" /\ run[s].outcome[1] > UTCI_ADVICE =>
            /\ Count(run[s].messages, {"warning:low_svf", "warning:high_svf"}) >= 1
            /\ Count(run[s].messages, {"info:balanced"}) = 0

\* C7: the row (32.7, 3.0, 114.0) yields exactly two warnings, a heat-stress
\* one and then an energy one, and no 'balanced' box, for every slider
\* setting.
C7_TwoAdvisories ==
    \A s \in Sessions :
        run[s].status = "result" /\ run[s].outcome = <<3270, 300, 11400>> =>
            /\ Len(run[s].messages) = 2
            /\ run[s].messages[1] \in {"warning:low_svf", "warning:high_svf"}
            /\ run[s].messages[2] = "warning:far"

\* C8: the row (30.0, 1.0, 100.0) yields no warning and the one 'balanced'
\* box, for every slider setting.
C8_BalancedRow ==
    \A s \in Sessions :
        run[s].status = "result" /\ run[s].outcome = <<3000, 100, 10000>> =>
            run[s].messages = <<"info:balanced">>

\* The row met the sliders that arm every rule: SVF 0.2, FAR 4.5, BCR 0.7.
C8_Witness ==
    \E s \in Sessions :
        /\ run[s].status = "result" /\ run[s].outcome = <<3000, 100, 10000>>
        /\ run[s].widgets[IndexOf(SidebarLabels, "SVF")] = 20
        /\ run[s].widgets[IndexOf(SidebarLabels, "FAR")] = 450
        /\ run[s].widgets[IndexOf(SidebarLabels, "BCR")] = 70
        /\ run[s].messages = <<"info:balanced">>

\* The order the input scaler was fit on.
TrainedOrder ==
    <<"FAR", "BCR", "OSR", "AS", "AH", "OR", "SD", "SVF",
      "AAR", "xAAR", "yAAR", "BESA", "SF", "APR">>

\* C9: the row handed to scaler_x.transform has 14 entries under the columns
\* FAR, BCR, OSR, AS, AH, OR, SD, SVF, AAR, xAAR, yAAR, BESA, SF, APR in
\* this order, and each entry is the value of the slider labelled with its
\* column's name, though the sidebar reads the sliders in another order.
C9_FeatureOrder ==
    \A s \in Sessions :
        run[s].steps # <<>> =>
            /\ Len(run[s].features) = 14
            /\ run[s].columns = TrainedOrder
            /\ \A i \in 1..14 :
                  run[s].features[i]
                     = run[s].widgets[IndexOf(SidebarLabels, TrainedOrder[i])]

\* The scaler was called on sliders whose AS, AH, OR and SD values differ
\* from the defaults and from each other.
C9_Witness ==
    \E s \in Sessions :
        /\ run[s].steps # <<>>
        /\ run[s].widgets = MkWidgets(OtherWidgets, 450, 60, 70)
        /\ run[s].features[4] = 200 /\ run[s].features[5] = 3100
        /\ run[s].features[6] = 9000 /\ run[s].features[7] = 1100

\* The place of a message in the rule order.
Rank(m) ==
    CASE m \in {"warning:low_svf", "warning:high_svf"} -> 1
      [] m = "warning:far" -> 2
      [] m = "warning:bcr" -> 3
      [] OTHER -> 0

\* C10: the low-SVF and the high-SVF warning never appear together, a
\* request shows at most three warnings, and they appear in rule order:
\* the SVF warning, then the FAR warning, then the BCR warning.
C10_RuleOrder ==
    \A s \in Sessions :
        run[s].status = "result" =>
            LET msgs == run[s].messages IN
            /\ Count(msgs, {"warning:low_svf"}) + Count(msgs, {"warning:high_svf"}) <= 1
            /\ Count(msgs, WarningKinds) <= 3
            /\ \A i, j \in 1..Len(msgs) : i < j => Rank(msgs[i]) < Rank(msgs[j])

\* All three kinds of warning are shown, in rule order.
C10_Witness ==
    \E s \in Sessions :
        /\ run[s].status = "result"
        /\ run[s].messages = <<"warning:high_svf", "warning:far", "warning:bcr">>

====
